---- MODULE Spec2Model ----
(***************************************************************************)
(* Model of the safe calculator (src/1.py) and of the quiz web app that    *)
(* duplicates its evaluator (src/app.py).                                  *)
(*                                                                         *)
(* An input line is a sequence of lexical tokens (plus a flag for leading  *)
(* whitespace).  ast.parse is modelled by a recursive-descent parser for   *)
(* the part of Python's expression grammar the tokens can spell; the       *)
(* validation loop and _eval are translated from the source.               *)
(*                                                                         *)
(* Python numbers are modelled exactly where the model can: an int is an   *)
(* integer, a float is a reduced fraction n/d (float literals are dyadic), *)
(* a bool is 0 or 1 of kind "bool", a complex number is opaque except for  *)
(* being zero or not.  A computation whose value leaves the modelled range *)
(* (magnitude above MaxAbs, an irrational power) is marked "oom" and the   *)
(* inputs that lead to it are not drawn.                                   *)
(***************************************************************************)
EXTENDS Integers, Sequences, FiniteSets, TLC

VARIABLES
    argv,      \* src/1.py: the command line's expression, or NoLine
    stdin,     \* src/1.py: the lines still to be typed at the prompt
    pc,        \* where the program is: "main", "repl", "exit", "crashed", ...
    expr,      \* the expression last passed to evaluate_expr
    out,       \* what that call of evaluate_expr of src/1.py ended in
    app_out,   \* what that call of evaluate_expr of src/app.py ended in
    printed,   \* src/1.py: what was last written to the terminal
    code,      \* src/1.py: the exit code of the process, -1 while it runs
    session,   \* src/app.py: the session of the quiz
    resp,      \* src/app.py: the last request and its response
    gen,       \* src/app.py: what the next calls of generate_expr return
    budget     \* src/app.py: how many requests are still to come

vars == <<argv, stdin, pc, expr, out, app_out, printed, code, session, resp, gen, budget>>

\* ------------------------------------------------------------------ bounds
\* Largest numerator or denominator a modelled number may have.
MaxAbs == 10000
\* Interpreter recursion limit, scaled down (CPython's default is 1000).
RecursionLimit == 6
\* Longest chain of prefix signs drawn as an input.
MaxChain == 12
\* Integer literals drawn as inputs are 0..MaxLit.
MaxLit == 3
\* generate_number draws from 0..GenMax (randint(0, 20) in the source).
GenMax == 1
\* Rounds of the quiz played in one session.
MaxRounds == 2
\* Requests of a session that explores the score.
MaxRequests == 4

\* The nesting beyond which ast.parse gives up: CPython derives it from the
\* recursion limit, and it is the larger of the two.
ParserLimit == 2 * RecursionLimit

\* ------------------------------------------------------------------ numbers
Abs(x) == IF x < 0 THEN -x ELSE x

RECURSIVE GCD(_, _)
GCD(a, b) == IF b = 0 THEN a ELSE GCD(b, a % b)

\* floor(a / b) for b > 0
FloorQ(a, b) == IF a >= 0 THEN a \div b ELSE -((-a + b - 1) \div b)

IntV(n) == [k |-> "int", n |-> n, d |-> 1]
BoolV(b) == [k |-> "bool", n |-> IF b THEN 1 ELSE 0, d |-> 1]
ComplexV(nonzero) == [k |-> "complex", n |-> IF nonzero THEN 1 ELSE 0, d |-> 1]
NoneV == [k |-> "none", n |-> 0, d |-> 1]
StrV == [k |-> "str", n |-> 0, d |-> 1]
\* the float n/d, reduced, d > 0
FloatV(n, d) ==
    LET s == IF d < 0 THEN -1 ELSE 1
        g == GCD(Abs(n), Abs(d))
    IN  [k |-> "float", n |-> (s * n) \div g, d |-> (s * d) \div g]

IsZero(v) == v.n = 0
InRange(v) == Abs(v.n) <= MaxAbs /\ v.d <= MaxAbs

\* results of applying an operator: a value, a Python exception, or out of model
Ok(v) == [st |-> "ok", v |-> v, exc |-> "-"]
Exc(e) == [st |-> "exc", v |-> NoneV, exc |-> e]
Oom == [st |-> "oom", v |-> NoneV, exc |-> "-"]
Ranged(v) == IF InRange(v) THEN Ok(v) ELSE Oom

\* int and bool operands give an int, a float operand gives a float
Mk(isFloat, n, d) == IF isFloat THEN FloatV(n, d) ELSE IntV(n \div d)

\* a ** b for an integer b >= 0 on fractions: [n, d], or "over" beyond MaxAbs.
\* The product is accumulated and given up as soon as it leaves the range.
RECURSIVE PowAcc(_, _, _, _, _)
PowAcc(n, d, b, an, ad) ==
    IF b = 0 THEN [over |-> FALSE, n |-> an, d |-> ad]
    ELSE IF Abs(an * n) > MaxAbs \/ Abs(ad * d) > MaxAbs
         THEN [over |-> TRUE, n |-> 0, d |-> 1]
         ELSE PowAcc(n, d, b - 1, an * n, ad * d)

PowQ(n, d, b) ==
    IF b = 0 THEN [over |-> FALSE, n |-> 1, d |-> 1]
    ELSE IF Abs(d) = 1 /\ Abs(n) <= 1
         THEN [over |-> FALSE, n |-> IF b % 2 = 0 THEN Abs(n * d) ELSE n * d, d |-> 1]
         ELSE PowAcc(n, d, b, 1, 1)

\* ------------------------------------------------------------------ operators
\* The functions of the operator module that _BIN_OPS and _UNARY_OPS name.
AnyComplex(l, r) == l.k = "complex" \/ r.k = "complex"
AnyFloat(l, r) == l.k = "float" \/ r.k = "float"

op_add(l, r) ==
    IF AnyComplex(l, r) THEN Oom
    ELSE Ranged(Mk(AnyFloat(l, r), l.n * r.d + r.n * l.d, l.d * r.d))

op_sub(l, r) ==
    IF AnyComplex(l, r) THEN Oom
    ELSE Ranged(Mk(AnyFloat(l, r), l.n * r.d - r.n * l.d, l.d * r.d))

op_mul(l, r) ==
    IF AnyComplex(l, r) THEN Ok(ComplexV(~IsZero(l) /\ ~IsZero(r)))
    ELSE Ranged(Mk(AnyFloat(l, r), l.n * r.n, l.d * r.d))

\* true division: always a float, ZeroDivisionError on a zero divisor
\* a variant of op_truediv that keeps an exact quotient of two ints an int
op_truediv_Exact(l, r) ==
    IF IsZero(r) THEN Exc("ZeroDivisionError")
    ELSE IF AnyComplex(l, r) THEN Ok(ComplexV(~IsZero(l)))
    ELSE IF ~AnyFloat(l, r) /\ l.n % Abs(r.n) = 0 THEN Ranged(IntV((l.n * r.n) \div (r.n * r.n)))
    ELSE Ranged(FloatV(l.n * r.d, l.d * r.n))

op_truediv(l, r) ==
    IF IsZero(r) THEN Exc("ZeroDivisionError")
    ELSE IF AnyComplex(l, r) THEN Ok(ComplexV(~IsZero(l)))
    ELSE Ranged(FloatV(l.n * r.d, l.d * r.n))

\* floor(l / r) as an integer, for r # 0
FloorOf(l, r) ==
    LET num == l.n * r.d
        den == l.d * r.n
    IN  IF den > 0 THEN FloorQ(num, den) ELSE FloorQ(-num, -den)

op_floordiv(l, r) ==
    IF AnyComplex(l, r) THEN Exc("TypeError")
    ELSE IF IsZero(r) THEN Exc("ZeroDivisionError")
    ELSE Ranged(Mk(AnyFloat(l, r), FloorOf(l, r), 1))

\* l - r * floor(l / r): the remainder takes the sign of the divisor
op_mod(l, r) ==
    IF AnyComplex(l, r) THEN Exc("TypeError")
    ELSE IF IsZero(r) THEN Exc("ZeroDivisionError")
    ELSE LET q == FloorOf(l, r)
         IN  IF Abs(q) > MaxAbs THEN Oom
             ELSE Ranged(Mk(AnyFloat(l, r), l.n * r.d - q * r.n * l.d, l.d * r.d))

op_pow(l, r) ==
    IF AnyComplex(l, r) THEN Oom
    ELSE IF r.d = 1 THEN
        \* an exponent that is a whole number (an int, a bool, or a float like 2.0)
        IF r.n >= 0 THEN
            LET p == PowQ(l.n, l.d, r.n)
            IN  IF p.over THEN Oom ELSE Ok(Mk(AnyFloat(l, r), p.n, p.d))
        ELSE IF IsZero(l) THEN Exc("ZeroDivisionError")
        ELSE LET p == PowQ(l.d, l.n, -r.n)
             IN  IF p.over THEN Oom ELSE Ok(FloatV(p.n, p.d))
    ELSE
        \* a fractional exponent
        IF l.n < 0 THEN Ok(ComplexV(TRUE))
        ELSE IF IsZero(l) THEN
            IF r.n > 0 THEN Ok(FloatV(0, 1)) ELSE Exc("ZeroDivisionError")
        ELSE IF l.n = l.d THEN Ok(FloatV(1, 1))
        ELSE Oom

op_neg(x) ==
    IF x.k = "complex" THEN Ok(x)
    ELSE Ok(Mk(x.k = "float", -x.n, x.d))

op_pos(x) == Ok(x)

_BIN_OPS == {"Add", "Sub", "Mult", "Div", "FloorDiv", "Mod", "Pow"}
_UNARY_OPS == {"UAdd", "USub"}

BinOpFn(op, l, r) ==
    CASE op = "Add" -> op_add(l, r)
      [] op = "Sub" -> op_sub(l, r)
      [] op = "Mult" -> op_mul(l, r)
      [] op = "Div" -> op_truediv(l, r)
      [] op = "FloorDiv" -> op_floordiv(l, r)
      [] op = "Mod" -> op_mod(l, r)
      [] op = "Pow" -> op_pow(l, r)

UnaryOpFn(op, x) ==
    CASE op = "UAdd" -> op_pos(x)
      [] op = "USub" -> op_neg(x)

\* ------------------------------------------------------------------ tokens
\* A token has a class c, for a literal its value v, and src, how it is spelt.
Punct(c) == [c |-> c, v |-> NoneV, src |-> "op"]
Dec(n) == [c |-> "NUMBER", v |-> IntV(n), src |-> "dec"]
DecFloat(n, d) == [c |-> "NUMBER", v |-> FloatV(n, d), src |-> "dec"]
Hex16 == [c |-> "NUMBER", v |-> IntV(16), src |-> "hex"]
Underscore10 == [c |-> "NUMBER", v |-> IntV(10), src |-> "underscore"]
KwTrue == [c |-> "True", v |-> BoolV(TRUE), src |-> "keyword"]
KwNone == [c |-> "None", v |-> NoneV, src |-> "keyword"]
StrLit == [c |-> "STRING", v |-> StrV, src |-> "quote"]
Ident == [c |-> "NAME", v |-> NoneV, src |-> "letters"]
\* one of the words exit, quit, q
QuitWord == [c |-> "NAME", v |-> NoneV, src |-> "quit"]

\* ------------------------------------------------------------------ syntax tree
Constant(v) == [t |-> "Constant", value |-> v]
Name == [t |-> "Name"]
BinOp(l, op, r) == [t |-> "BinOp", left |-> l, op |-> op, right |-> r]
UnaryOp(op, x) == [t |-> "UnaryOp", op |-> op, operand |-> x]
Compare(l, cs) == [t |-> "Compare", left |-> l, comparators |-> cs]
TupleN(es) == [t |-> "Tuple", elts |-> es]
ListN(es) == [t |-> "List", elts |-> es]
Subscript(x, sl) == [t |-> "Subscript", value |-> x, slice |-> sl]
Call(f, as) == [t |-> "Call", func |-> f, args |-> as]
Attribute(x) == [t |-> "Attribute", value |-> x]
Expression(b) == [t |-> "Expression", body |-> b]

\* the child nodes of a node, in the order of its fields (ast.iter_child_nodes)
Children(node) ==
    CASE node.t = "Expression" -> <<node.body>>
      [] node.t = "BinOp" -> <<node.left, node.right>>
      [] node.t = "UnaryOp" -> <<node.operand>>
      [] node.t = "Compare" -> <<node.left>> \o node.comparators
      [] node.t \in {"Tuple", "List"} -> node.elts
      [] node.t = "Subscript" -> <<node.value, node.slice>>
      [] node.t = "Call" -> <<node.func>> \o node.args
      [] node.t = "Attribute" -> <<node.value>>
      [] OTHER -> <<>>

RECURSIVE Depth(_)
RECURSIVE MaxDepth(_, _)
MaxDepth(nodes, i) ==
    IF i > Len(nodes) THEN 0
    ELSE LET a == Depth(nodes[i])
             b == MaxDepth(nodes, i + 1)
         IN  IF a > b THEN a ELSE b
Depth(node) == 1 + MaxDepth(Children(node), 1)

\* ------------------------------------------------------------------ parser
\* ast.parse(expr, mode="eval") on the token stream: Python's expression
\* grammar from tuples down to atoms (conditional, boolean and bitwise
\* expressions, lambdas and displays in braces are left out of the tokens).
Peek(toks, i) == IF i <= Len(toks) THEN toks[i].c ELSE "END"
Fail(i) == [ok |-> FALSE, node |-> Name, nodes |-> <<>>, pos |-> i]
Got(n, i) == [ok |-> TRUE, node |-> n, nodes |-> <<>>, pos |-> i]
GotSeq(ns, i) == [ok |-> TRUE, node |-> Name, nodes |-> ns, pos |-> i]

SumOp(c) == IF c = "+" THEN "Add" ELSE "Sub"
TermOp(c) ==
    CASE c = "*" -> "Mult"
      [] c = "/" -> "Div"
      [] c = "//" -> "FloorDiv"
      [] c = "%" -> "Mod"
      [] c = "@" -> "MatMult"
FactorOp(c) ==
    CASE c = "+" -> "UAdd"
      [] c = "-" -> "USub"
      [] c = "~" -> "Invert"

\* the rule that parses the right operand of '**' (power: primary '**' factor)
PowerOperandRule_Primary == "primary"
PowerOperandRule == "factor"

\* a parenthesised or subscript item list: one expression, or a tuple
OneOrTuple(toks, es) ==
    IF Len(es.nodes) = 1 /\ Peek(toks, es.pos - 1) # ","
    THEN es.nodes[1] ELSE TupleN(es.nodes)

\* Recursive descent, one rule of the grammar per case.  left is the operand
\* parsed so far (the loops of the left-associative rules), acc the items
\* parsed so far and close the token that ends them (rule "items").
RECURSIVE Parse(_, _, _, _, _, _)
Parse(rule, toks, i, left, acc, close) ==
    CASE rule = "items" ->
            \* expression (',' expression)* [','] up to the closing token
            IF Peek(toks, i) = close THEN GotSeq(acc, i)
            ELSE LET e == Parse("comparison", toks, i, Name, <<>>, "")
                 IN  IF ~e.ok THEN Fail(i)
                     ELSE IF Peek(toks, e.pos) = ","
                          THEN Parse("items", toks, e.pos + 1, Name, Append(acc, e.node), close)
                          ELSE IF Peek(toks, e.pos) = close
                               THEN GotSeq(Append(acc, e.node), e.pos)
                               ELSE Fail(e.pos)
      [] rule = "comparison" ->
            \* sum ('<' sum)*
            LET l == Parse("sum", toks, i, Name, <<>>, "")
            IN  IF ~l.ok THEN l
                ELSE IF Peek(toks, l.pos) = "<"
                     THEN Parse("comparators", toks, l.pos, l.node, <<>>, "")
                     ELSE l
      [] rule = "comparators" ->
            IF Peek(toks, i) = "<"
            THEN LET r == Parse("sum", toks, i + 1, Name, <<>>, "")
                 IN  IF ~r.ok THEN r
                     ELSE Parse("comparators", toks, r.pos, left, Append(acc, r.node), "")
            ELSE Got(Compare(left, acc), i)
      [] rule = "sum" ->
            \* sum ('+' | '-') term | term
            LET t == Parse("term", toks, i, Name, <<>>, "")
            IN  IF ~t.ok THEN t ELSE Parse("sum_loop", toks, t.pos, t.node, <<>>, "")
      [] rule = "sum_loop" ->
            IF Peek(toks, i) \in {"+", "-"}
            THEN LET r == Parse("term", toks, i + 1, Name, <<>>, "")
                 IN  IF ~r.ok THEN r
                     ELSE Parse("sum_loop", toks, r.pos,
                                BinOp(left, SumOp(Peek(toks, i)), r.node), <<>>, "")
            ELSE Got(left, i)
      [] rule = "term" ->
            \* term ('*' | '/' | '//' | '%' | '@') factor | factor
            LET f == Parse("factor", toks, i, Name, <<>>, "")
            IN  IF ~f.ok THEN f ELSE Parse("term_loop", toks, f.pos, f.node, <<>>, "")
      [] rule = "term_loop" ->
            IF Peek(toks, i) \in {"*", "/", "//", "%", "@"}
            THEN LET r == Parse("factor", toks, i + 1, Name, <<>>, "")
                 IN  IF ~r.ok THEN r
                     ELSE Parse("term_loop", toks, r.pos,
                                BinOp(left, TermOp(Peek(toks, i)), r.node), <<>>, "")
            ELSE Got(left, i)
      [] rule = "factor" ->
            \* ('+' | '-' | '~') factor | power
            IF Peek(toks, i) \in {"+", "-", "~"}
            THEN LET x == Parse("factor", toks, i + 1, Name, <<>>, "")
                 IN  IF ~x.ok THEN x
                     ELSE Got(UnaryOp(FactorOp(Peek(toks, i)), x.node), x.pos)
            ELSE Parse("power", toks, i, Name, <<>>, "")
      [] rule = "power" ->
            \* primary ['**' factor]
            LET b == Parse("primary", toks, i, Name, <<>>, "")
            IN  IF ~b.ok THEN b
                ELSE IF Peek(toks, b.pos) = "**"
                     THEN LET e == Parse(PowerOperandRule, toks, b.pos + 1, Name, <<>>, "")
                          IN  IF ~e.ok THEN e
                              ELSE Got(BinOp(b.node, "Pow", e.node), e.pos)
                     ELSE b
      [] rule = "primary" ->
            \* atom, then calls, subscripts and attributes
            LET a == Parse("atom", toks, i, Name, <<>>, "")
            IN  IF ~a.ok THEN a ELSE Parse("trailers", toks, a.pos, a.node, <<>>, "")
      [] rule = "trailers" ->
            CASE Peek(toks, i) = "(" ->
                    LET as == Parse("items", toks, i + 1, Name, <<>>, ")")
                    IN  IF ~as.ok THEN Fail(as.pos)
                        ELSE Parse("trailers", toks, as.pos + 1,
                                   Call(left, as.nodes), <<>>, "")
              [] Peek(toks, i) = "[" ->
                    LET sl == Parse("items", toks, i + 1, Name, <<>>, "]")
                    IN  IF ~sl.ok \/ sl.nodes = <<>> THEN Fail(sl.pos)
                        ELSE Parse("trailers", toks, sl.pos + 1,
                                   Subscript(left, OneOrTuple(toks, sl)), <<>>, "")
              [] Peek(toks, i) = "." ->
                    IF Peek(toks, i + 1) = "NAME"
                    THEN Parse("trailers", toks, i + 2, Attribute(left), <<>>, "")
                    ELSE Fail(i + 1)
              [] OTHER -> Got(left, i)
      [] rule = "atom" ->
            CASE Peek(toks, i) \in {"NUMBER", "True", "None"} ->
                    Got(Constant(toks[i].v), i + 1)
              [] Peek(toks, i) = "STRING" ->
                    \* adjacent string literals are one constant
                    IF Peek(toks, i + 1) = "STRING"
                    THEN Parse("atom", toks, i + 1, Name, <<>>, "")
                    ELSE Got(Constant(toks[i].v), i + 1)
              [] Peek(toks, i) = "NAME" -> Got(Name, i + 1)
              [] Peek(toks, i) = "(" ->
                    LET es == Parse("items", toks, i + 1, Name, <<>>, ")")
                    IN  IF ~es.ok THEN Fail(es.pos)
                        ELSE Got(OneOrTuple(toks, es), es.pos + 1)
              [] Peek(toks, i) = "[" ->
                    LET es == Parse("items", toks, i + 1, Name, <<>>, "]")
                    IN  IF ~es.ok THEN Fail(es.pos)
                        ELSE Got(ListN(es.nodes), es.pos + 1)
              [] OTHER -> Fail(i)

\* the whole input: one expression, or a tuple when a comma follows one
ParseExprs(toks) ==
    LET es == Parse("items", toks, 1, Name, <<>>, "END")
    IN  IF ~es.ok \/ es.nodes = <<>> THEN Fail(es.pos)
        ELSE Got(OneOrTuple(toks, es), es.pos)

\* An input line: lead says that it starts with whitespace, toks are its tokens.
Line(lead, toks) == [lead |-> lead, toks |-> toks]
strip(line) == Line(FALSE, line.toks)

\* ast.parse: the tree, a SyntaxError (leading whitespace is an unexpected
\* indent), or a RecursionError when the tree is nested deeper than the
\* parser can build it.
ast_parse(line) ==
    LET p == ParseExprs(line.toks)
    IN  IF line.lead \/ ~p.ok
        THEN [st |-> "SyntaxError", tree |-> Name]
        ELSE IF Depth(Expression(p.node)) > ParserLimit
             THEN [st |-> "RecursionError", tree |-> Name]
             ELSE [st |-> "ok", tree |-> Expression(p.node)]

\* ast.walk: breadth first from the root.  The operator and context objects
\* it also yields are left out: no branch of the loop raises on them.
RECURSIVE ast_walk(_)
ast_walk(queue) ==
    IF queue = <<>> THEN <<>>
    ELSE <<Head(queue)>> \o ast_walk(Tail(queue) \o Children(Head(queue)))

\* ------------------------------------------------------------------ outcomes
\* What a call of evaluate_expr ends in.  kind: "value", the exception type, or
\* "oom" (out of the modelled range); val: the value returned; stage: where it
\* ended; evald: how many nodes _eval had evaluated to a value; applied: how
\* many operator functions it had called; dz: whether one of them was /, // or
\* % called with a zero right operand.
Out(kind, val, msg, stage, evald, applied, dz) ==
    [kind |-> kind, val |-> val, msg |-> msg, stage |-> stage,
     evald |-> evald, applied |-> applied, dz |-> dz]
Value(v, evald, applied) == Out("value", v, "-", "eval", evald, applied, FALSE)
Raise(kind, msg, stage) == Out(kind, NoneV, msg, stage, 0, 0, FALSE)
\* the same outcome after more work was done before it
After(o, evald, applied) ==
    [o EXCEPT !.evald = @ + evald, !.applied = @ + applied]

\* the try/except around the operator call of a BinOp (src/1.py 48-51)
WrapBinOp(op, l, r) ==
    LET res == BinOpFn(op, l.val, r.val)
        n == l.evald + r.evald
        a == l.applied + r.applied + 1
    IN  CASE res.st = "ok" -> Value(res.v, n + 1, a)
          [] res.st = "exc" ->
                Out("ValueError", NoneV, "Error computing", "eval", n, a,
                    op \in {"Div", "FloorDiv", "Mod"} /\ IsZero(r.val))
          [] OTHER -> Out("oom", NoneV, "-", "eval", n, a, FALSE)

\* the call of _eval that is the depth-th frame of the recursion: beyond the
\* interpreter's recursion limit the call itself raises RecursionError
RECURSIVE _eval_frame(_, _)
_eval_frame(node, depth) ==
    IF depth > RecursionLimit THEN Raise("RecursionError", "-", "eval") ELSE
    CASE node.t = "Expression" -> _eval_frame(node.body, depth + 1)
      [] node.t = "Constant" ->
            IF node.value.k \in {"int", "float", "bool"}
            THEN Value(node.value, 1, 0)
            ELSE Raise("ValueError", "Unsupported constant", "eval")
      [] node.t = "BinOp" ->
            LET l == _eval_frame(node.left, depth + 1)
            IN  IF l.kind # "value" THEN l
                ELSE LET r == _eval_frame(node.right, depth + 1)
                     IN  IF r.kind # "value" THEN After(r, l.evald, l.applied)
                         ELSE IF node.op \in _BIN_OPS THEN WrapBinOp(node.op, l, r)
                         ELSE After(Raise("ValueError", "Unsupported binary operator", "eval"),
                                    l.evald + r.evald, l.applied + r.applied)
      [] node.t = "UnaryOp" ->
            LET x == _eval_frame(node.operand, depth + 1)
            IN  IF x.kind # "value" THEN x
                ELSE IF node.op \in _UNARY_OPS
                     THEN Value(UnaryOpFn(node.op, x.val).v, x.evald + 1, x.applied + 1)
                     ELSE After(Raise("ValueError", "Unsupported unary operator", "eval"),
                                x.evald, x.applied)
      [] node.t = "Call" -> Raise("ValueError", "Function calls are not allowed", "eval")
      [] node.t = "Name" -> Raise("ValueError", "Names/variables are not allowed", "eval")
      [] OTHER -> Raise("ValueError", "Unsupported expression", "eval")

_eval(node) == _eval_frame(node, 1)

\* the node types the validation loop lists as allowed, and those it rejects
allowed == {"Expression", "BinOp", "UnaryOp", "Constant", "Num", "Add", "Sub",
            "Mult", "Div", "FloorDiv", "Mod", "Pow", "UAdd", "USub", "Load",
            "Expr", "Subscript", "Tuple", "List"}
rejected == {"Call", "Name", "Attribute", "Lambda", "Dict", "Set", "ListComp",
             "GeneratorExp"}

\* one pass of the validation loop's body: the error it raises on node, or "-"
CheckNode(node) ==
    IF node.t = "BinOp" /\ node.op \notin _BIN_OPS THEN "Disallowed operator"
    ELSE IF node.t = "UnaryOp" /\ node.op \notin _UNARY_OPS
         THEN "Disallowed unary operator"
    ELSE IF node.t \notin allowed /\ node.t \in rejected
         THEN "Disallowed expression component"
    ELSE "-"

\* the validation loop: the first error in walk order, or "-"
RECURSIVE FirstError(_, _)
FirstError(nodes, i) ==
    IF i > Len(nodes) THEN "-"
    ELSE IF CheckNode(nodes[i]) # "-" THEN CheckNode(nodes[i])
    ELSE FirstError(nodes, i + 1)

Validate(tree) == FirstError(ast_walk(<<tree>>), 1)

\* evaluate_expr of src/1.py
evaluate_expr(line) ==
    LET p == ast_parse(line)
    IN  CASE p.st = "SyntaxError" -> Raise("ValueError", "Syntax error in expression", "parse")
          [] p.st = "RecursionError" -> Raise("RecursionError", "-", "parse")
          [] OTHER ->
                IF Validate(p.tree) # "-"
                THEN Raise("ValueError", Validate(p.tree), "validate")
                ELSE _eval(p.tree)

\* _eval of src/app.py: that of src/1.py, but for one message for calls and names
app_eval(node) ==
    LET o == _eval(node)
    IN  IF o.msg \in {"Function calls are not allowed", "Names/variables are not allowed"}
        THEN [o EXCEPT !.msg = "Function calls or names are not allowed"]
        ELSE o

\* evaluate_expr of src/app.py: ast.parse is called outside any try
app_evaluate_expr(line) ==
    LET p == ast_parse(line)
    IN  CASE p.st = "SyntaxError" -> Raise("SyntaxError", "-", "parse")
          [] p.st = "RecursionError" -> Raise("RecursionError", "-", "parse")
          [] OTHER ->
                IF Validate(p.tree) # "-"
                THEN Raise("ValueError", Validate(p.tree), "validate")
                ELSE app_eval(p.tree)
\* ------------------------------------------------------------------ inputs
Ints == {Dec(n) : n \in 0..MaxLit}
Lits == Ints \cup {DecFloat(1, 2)}
BinSyms == {"+", "-", "*", "/", "//", "%", "**"}
Signs == {"+", "-"}
\* the last of three operands
LastLits == {Dec(0), Dec(2), DecFloat(1, 2)}
\* every token of the model
Alphabet ==
    {Dec(0), Dec(2), DecFloat(1, 2), Hex16, Underscore10, KwTrue, KwNone,
     StrLit, Ident, QuitWord}
    \cup {Punct(c) : c \in BinSyms \cup {"@", "~", "<", ",", ".", "(", ")", "[", "]"}}

RECURSIVE Repeat(_, _)
Repeat(tok, n) == IF n = 0 THEN <<>> ELSE <<tok>> \o Repeat(tok, n - 1)

\* every token sequence of at most three tokens
ShortSeqs ==
    {<<>>} \cup {<<a>> : a \in Alphabet}
    \cup {<<a, b>> : a \in Alphabet, b \in Alphabet}
    \cup {<<a, b, c>> : a \in Alphabet, b \in Alphabet, c \in Alphabet}

\* two operators in a row, with and without parentheses, and signed operands
Arith ==
    {<<a, Punct(o), b, Punct(q), c>> :
        a \in Lits, o \in BinSyms, b \in Lits, q \in BinSyms, c \in LastLits}
    \cup {<<Punct("("), a, Punct(o), b, Punct(")"), Punct(q), c>> :
        a \in Lits, o \in BinSyms, b \in Lits, q \in BinSyms, c \in LastLits}
    \cup {<<a, Punct(o), Punct("("), b, Punct(q), c, Punct(")")>> :
        a \in Lits, o \in BinSyms, b \in Lits, q \in BinSyms, c \in LastLits}
    \cup {<<Punct(u), a, Punct(o), b>> :
        u \in Signs, a \in Lits, o \in BinSyms, b \in Lits}
    \cup {<<a, Punct(o), Punct(u), b>> :
        u \in Signs, a \in Lits, o \in BinSyms, b \in Lits}
    \cup {<<Punct("("), Punct(u), a, Punct(")"), Punct(o), b>> :
        u \in Signs, a \in Lits, o \in BinSyms, b \in Lits}

\* an arithmetic operand beside a construct that is no arithmetic
Mixed ==
    {<<Punct("("), a, Punct(o), b, Punct(")"), Punct(q)>> \o x :
        a \in {Dec(0), Dec(2)}, o \in BinSyms, b \in {Dec(0), Dec(2)}, q \in BinSyms,
        x \in {<<Punct("("), Dec(2), Punct("<"), Dec(2), Punct(")")>>,
               <<Punct("["), Dec(2), Punct("]")>>,
               <<Punct("("), Dec(2), Punct(","), Dec(2), Punct(")")>>,
               <<Punct("["), Dec(2), Punct("]"), Punct("["), Dec(0), Punct("]")>>,
               <<StrLit>>, <<KwNone>>, <<KwTrue>>, <<Ident>>,
               <<Ident, Punct("("), Punct(")")>>,
               <<Punct("("), Dec(2), Punct("@"), Dec(2), Punct(")")>>}}

\* chains of prefix signs in front of a literal and of a division
Chains ==
    {Repeat(Punct("-"), n) \o x :
        n \in 0..MaxChain,
        x \in {<<Dec(2)>>, <<Punct("("), Dec(2), Punct("/"), Dec(0), Punct(")")>>}}

\* the end-to-end examples of the documentation
Examples ==
    {<<Dec(2), Punct("+"), Dec(3), Punct("*"), Punct("("), Dec(4), Punct("-"), Dec(1), Punct(")")>>,
     <<Dec(2), Punct("+"), Dec(3), Punct("*"), Dec(4)>>,
     <<Punct("("), Dec(2), Punct("+"), Dec(3), Punct(")"), Punct("*"), Dec(4)>>,
     <<Dec(7), Punct("//"), Dec(2)>>,
     <<Dec(7), Punct("%"), Punct("-"), Dec(2)>>,
     <<Dec(10), Punct("/"), Dec(0)>>}

AllLines ==
    {Line(FALSE, t) : t \in ShortSeqs \cup Arith \cup Mixed \cup Chains \cup Examples}
    \cup {Line(TRUE, t) : t \in {<<>>, <<Dec(2)>>}}

\* the inputs drawn: those whose evaluation stays in the modelled range
Lines == {l \in AllLines : evaluate_expr(l).kind # "oom"}

\* the single lines typed at the prompt
ReplLines ==
    {l \in Lines : Len(l.toks) <= 2} \cup {Line(TRUE, <<>>)}
    \cup {Line(FALSE, t) : t \in Chains \cup Examples}

\* a few lines for sessions of two lines
FewLines ==
    {Line(FALSE, t) : t \in {<<>>, <<Dec(2)>>, <<Dec(2), Punct("/"), Dec(0)>>,
                             <<Dec(2), Punct("+")>>, <<KwTrue>>, <<QuitWord>>}}
    \cup {Line(TRUE, <<Dec(2)>>), Line(FALSE, Repeat(Punct("-"), MaxChain) \o <<Dec(2)>>)}
\* ------------------------------------------------------------------ src/1.py
NoLine == [lead |-> FALSE, toks |-> <<Punct("no line")>>]
NoOut == Out("none", NoneV, "-", "-", 0, 0, FALSE)
NoSession == [score |-> -1, rounds |-> -1, expr |-> NoLine]
NoAnswer == [form |-> "-", v |-> NoneV]
NoResp == [req |-> "-", answer |-> NoAnswer, status |-> 0, error |-> "-",
           parsed |-> FALSE, correct |-> FALSE]

isExitWord(line) == line.toks = <<QuitWord>>

\* The process starts with an expression on the command line, or with none and
\* some lines to be typed: any one line, or two of a few.
Init ==
    /\ \/ /\ argv \in Lines
          /\ stdin = <<>>
       \/ /\ argv = NoLine
          /\ stdin \in {<<>>} \cup {<<l>> : l \in ReplLines}
                      \cup {<<l, m>> : l \in FewLines, m \in FewLines}
    /\ pc = "main"
    /\ expr = NoLine
    /\ out = NoOut
    /\ app_out = NoOut
    /\ printed = "-"
    /\ code = -1
    /\ session = NoSession
    /\ resp = NoResp
    /\ gen = <<>>
    /\ budget = 0

\* what the two callers do with an outcome of evaluate_expr: print the value,
\* print the error of a ValueError, or let any other exception escape
Printed(o) ==
    CASE o.kind = "value" -> "result"
      [] o.kind = "ValueError" -> "Error"
      [] OTHER -> "Traceback"

\* main() with an expression on the command line
MainSingle ==
    /\ pc = "main"
    /\ argv # NoLine
    /\ LET o == evaluate_expr(argv)
       IN  /\ expr' = argv
           /\ out' = o
           /\ printed' = Printed(o)
           /\ pc' = IF o.kind \in {"value", "ValueError"} THEN "exit" ELSE "crashed"
           /\ code' = IF o.kind = "value" THEN 0 ELSE 1
    /\ UNCHANGED <<argv, stdin, app_out, session, resp, gen, budget>>

\* main() without: repl() prints its banner and starts to loop
MainRepl ==
    /\ pc = "main"
    /\ argv = NoLine
    /\ pc' = "repl"
    /\ printed' = "banner"
    /\ UNCHANGED <<argv, stdin, expr, out, app_out, code, session, resp, gen, budget>>

\* one turn of the loop of repl() on the next line typed
ReplLine ==
    /\ pc = "repl"
    /\ stdin # <<>>
    /\ stdin' = Tail(stdin)
    /\ LET e == strip(Head(stdin))
       IN  IF e.toks = <<>>
           THEN UNCHANGED <<pc, expr, out, printed, code>>
           ELSE IF isExitWord(e)
           THEN /\ printed' = "Goodbye"
                /\ pc' = "exit"
                /\ code' = 0
                /\ UNCHANGED <<expr, out>>
           ELSE LET o == evaluate_expr(e)
                IN  /\ expr' = e
                    /\ out' = o
                    /\ printed' = Printed(o)
                    /\ pc' = IF o.kind \in {"value", "ValueError"}
                             THEN "repl" ELSE "crashed"
                    /\ code' = IF o.kind \in {"value", "ValueError"} THEN -1 ELSE 1
    /\ UNCHANGED <<argv, app_out, session, resp, gen, budget>>

\* end of input at the prompt
ReplEOF ==
    /\ pc = "repl"
    /\ stdin = <<>>
    /\ printed' = "Goodbye"
    /\ pc' = "exit"
    /\ code' = 0
    /\ UNCHANGED <<argv, stdin, expr, out, app_out, session, resp, gen, budget>>

Next == MainSingle \/ MainRepl \/ ReplLine \/ ReplEOF

Spec == Init /\ [][Next]_vars
\* ------------------------------------------------------------------ both evaluators
\* The two evaluate_expr applied to the same input.
InitEquiv ==
    /\ expr \in Lines
    /\ pc = "equiv"
    /\ argv = NoLine
    /\ stdin = <<>>
    /\ out = NoOut
    /\ app_out = NoOut
    /\ printed = "-"
    /\ code = -1
    /\ session = NoSession
    /\ resp = NoResp
    /\ gen = <<>>
    /\ budget = 0

CallBoth ==
    /\ pc = "equiv"
    /\ out' = evaluate_expr(expr)
    /\ app_out' = app_evaluate_expr(expr)
    /\ pc' = "compared"
    /\ UNCHANGED <<argv, stdin, expr, printed, code, session, resp, gen, budget>>

NextEquiv == CallBoth

SpecEquiv == InitEquiv /\ [][NextEquiv]_vars

\* ------------------------------------------------------------------ src/app.py
OPS == {"+", "-", "*", "/", "//", "%", "**"}
\* the largest exponent generate_expr draws for '**'
MaxExponent == 4
\* the attempts of /expr before it falls back
Attempts == 30
\* 1 / rel_tol = 1 / abs_tol of the comparison of /check
TolInv == 1000000000

\* generate_number: the strings it can return, as tokens ("-0" is never one:
\* -0 is the int 0)
generate_number ==
    {<<Dec(n)>> : n \in 0..GenMax} \cup {<<Punct("-"), Dec(n)>> : n \in 1..GenMax}

\* the right operand generate_expr draws for op_sym
RightOperands(op_sym) ==
    IF op_sym = "**" THEN {<<Dec(k)>> : k \in 0..MaxExponent}
    ELSE {IF op_sym \in {"/", "//", "%"} /\ r = <<Dec(0)>> THEN <<Dec(1)>> ELSE r :
            r \in generate_number}

\* the operator and the right operand one turn of the loop can draw
OpRights == UNION {{<<op_sym, right>> : right \in RightOperands(op_sym)} : op_sym \in OPS}

\* one turn of the loop of generate_expr on the list parts: the last part is
\* parenthesised with the operator and the operand, or the two are appended
GenStep(parts, drawn, paren) ==
    IF paren
    THEN Append(SubSeq(parts, 1, Len(parts) - 1),
                <<Punct("(")>> \o parts[Len(parts)] \o <<Punct(drawn[1])>> \o drawn[2]
                    \o <<Punct(")")>>)
    ELSE parts \o <<<<Punct(drawn[1])>>, drawn[2]>>

RECURSIVE GenParts(_)
GenParts(ops_count) ==
    IF ops_count = 0 THEN {<<n>> : n \in generate_number}
    ELSE {GenStep(p, d, b) : p \in GenParts(ops_count - 1), d \in OpRights, b \in BOOLEAN}

RECURSIVE Join(_)
Join(parts) == IF parts = <<>> THEN <<>> ELSE Head(parts) \o Join(Tail(parts))

\* generate_expr: the expressions it can return
generate_expr(max_ops) ==
    {Line(FALSE, Join(p)) : p \in UNION {GenParts(k) : k \in 0..max_ops}}

\* what evaluate_expr of src/app.py makes of e inside "try ... except Exception"
Evaluates(e) == app_evaluate_expr(e).kind = "value"

\* the expressions of generate_expr(max_ops=2) that evaluate and those that raise
\* (those with a value beyond MaxAbs are left out)
Generated == generate_expr(2)
GoodExprs == {e \in Generated : Evaluates(e)}
BadExprs == {e \in Generated \ GoodExprs : app_evaluate_expr(e).kind # "oom"}
OnePlusOne == Line(FALSE, <<Dec(1), Punct("+"), Dec(1)>>)

\* a few of each, for the longer sessions
FewGood ==
    {Line(FALSE, <<Dec(1)>>),
     Line(FALSE, <<Dec(1), Punct("/"), Dec(1)>>),
     Line(FALSE, <<Dec(1), Punct("+"), Dec(1), Punct("*"), Dec(0)>>)}
FewBad ==
    {Line(FALSE, <<Dec(1), Punct("/"), Punct("("), Dec(1), Punct("-"), Dec(1), Punct(")")>>),
     Line(FALSE, <<Dec(0), Punct("**"), Punct("("), Dec(0), Punct("-"), Dec(1), Punct(")")>>)}

\* what random makes generate_expr return, call after call
\* one call that returns an expression of at most one operator, or two calls
\* of which the first returns any expression that raises
ShortTapes ==
    {<<e>> : e \in GoodExprs \cap generate_expr(1)}
    \cup {<<b, g>> : b \in BadExprs, g \in FewGood}
LongTapes ==
    {<<g, h>> : g \in FewGood, h \in FewGood}
    \cup {<<b, g, b>> : b \in FewBad, g \in FewGood}
    \cup {Repeat(b, Attempts) \o <<g>> : b \in FewBad, g \in FewGood}
    \cup {Repeat(b, Attempts - 1) \o <<g>> : b \in FewBad, g \in FewGood}

\* the body of a POST /check: the "answer" of the JSON document
IntAnswer(n) == [form |-> "int", v |-> IntV(n)]
FloatAnswer(n, d) == [form |-> "float", v |-> FloatV(n, d)]
NanAnswer == [form |-> "nan", v |-> NoneV]
JunkAnswer == [form |-> "junk", v |-> NoneV]
NonString == [form |-> "nonstring", v |-> NoneV]
Answers ==
    {IntAnswer(0), IntAnswer(1), IntAnswer(2), FloatAnswer(1, 2), FloatAnswer(1, 1),
     NanAnswer, JunkAnswer, NonString}

\* int(answer) or float(answer) succeeds
Parseable(a) == a.form \in {"int", "float", "nan"}

\* math.isclose(x, y, rel_tol=1e-9, abs_tol=1e-9) on two fractions:
\* |x - y| <= max(rel_tol * max(|x|, |y|), abs_tol)
isclose(x, y) ==
    LET diff == Abs(x.n * y.d - y.n * x.d)
    IN  \/ diff = 0
        \/ diff <= (Abs(x.n) * y.d) \div TolInv
        \/ diff <= (Abs(y.n) * x.d) \div TolInv
        \/ diff <= (x.d * y.d) \div TolInv

\* the comparison of /check
AnswerRight(a, real) ==
    IF real.k \in {"int", "bool"} /\ a.form = "int" THEN real.n = a.v.n
    ELSE IF real.k = "complex" \/ a.form = "nan" THEN FALSE
    ELSE isclose(real, a.v)

\* session.get(key, 0)
Get(n) == IF n = -1 THEN 0 ELSE n
Score == Get(session.score)
Rounds == Get(session.rounds)

Response(req, status, error) == [NoResp EXCEPT !.req = req, !.status = status, !.error = error]
Checked(a, status, error, parsed, correct) ==
    [req |-> "check", answer |-> a, status |-> status, error |-> error,
     parsed |-> parsed, correct |-> correct]

InitQuiz ==
    /\ \/ gen \in ShortTapes /\ budget = 2
       \/ gen \in LongTapes /\ budget = MaxRequests
    /\ session = NoSession
    /\ resp = NoResp
    /\ pc = "app"
    /\ argv = NoLine
    /\ stdin = <<>>
    /\ expr = NoLine
    /\ out = NoOut
    /\ app_out = NoOut
    /\ printed = "-"
    /\ code = -1

\* GET /
Index ==
    /\ pc = "app" /\ budget > 0
    /\ budget' = budget - 1
    /\ session' = [session EXCEPT !.score = Get(@), !.rounds = Get(@)]
    /\ resp' = Response("index", 200, "-")
    /\ UNCHANGED <<argv, stdin, pc, expr, out, app_out, printed, code, gen>>

\* the least member of a set of positions, 0 if there is none
First(good) == IF good = {} THEN 0 ELSE CHOOSE i \in good : \A j \in good : i <= j

\* a variant of FirstGood that stores the first expression without trying it
FirstGood_NoTry(tape) == IF tape = <<>> THEN 0 ELSE 1

\* the attempt of /expr that evaluates, among the first Attempts of the tape
FirstGood(tape) == First({i \in 1..Len(tape) : i <= Attempts /\ Evaluates(tape[i])})

\* /expr after its loop: attempt i evaluated, or none did (i = 0)
Store(i) ==
    \/ /\ i > 0
       /\ session' = [session EXCEPT !.expr = gen[i]]
       /\ gen' = SubSeq(gen, i + 1, Len(gen))
    \/ /\ i = 0
       /\ Len(gen) >= Attempts
       /\ session' = [session EXCEPT !.expr = OnePlusOne]
       /\ gen' = SubSeq(gen, Attempts + 1, Len(gen))

\* GET /expr
Expr ==
    /\ pc = "app" /\ budget > 0
    /\ budget' = budget - 1
    /\ Store(FirstGood(gen))
    /\ resp' = Response("expr", 200, "-")
    /\ UNCHANGED <<argv, stdin, pc, expr, out, app_out, printed, code>>

\* a variant of Scored that forgets the round
Scored_NoRounds(correct) == [session EXCEPT !.score = IF correct THEN Score + 1 ELSE @]

\* the session after /check has compared a parseable answer
Scored(correct) ==
    [session EXCEPT !.score = IF correct THEN Score + 1 ELSE @, !.rounds = Rounds + 1]

\* POST /check with the answer a
Check(a) ==
    /\ pc = "app" /\ budget > 0
    /\ budget' = budget - 1
    /\ IF a.form = "nonstring"
       THEN /\ resp' = Checked(a, 500, "AttributeError", FALSE, FALSE)
            /\ UNCHANGED session
       ELSE IF session.expr = NoLine
       THEN /\ resp' = Checked(a, 400, "No active expression", FALSE, FALSE)
            /\ UNCHANGED session
       ELSE LET real == app_evaluate_expr(session.expr)
            IN  IF real.kind # "value"
                THEN /\ resp' = Checked(a, 500, "Server evaluation error", FALSE, FALSE)
                     /\ UNCHANGED session
                ELSE IF ~Parseable(a)
                THEN /\ resp' = Checked(a, 200, "-", FALSE, FALSE)
                     /\ UNCHANGED session
                ELSE LET correct == AnswerRight(a, real.val)
                     IN  /\ Rounds < MaxRounds
                         /\ session' = Scored(correct)
                         /\ resp' = Checked(a, 200, "-", TRUE, correct)
    /\ UNCHANGED <<argv, stdin, pc, expr, out, app_out, printed, code, gen>>

\* POST /reset
Reset ==
    /\ pc = "app" /\ budget > 0
    /\ budget' = budget - 1
    /\ session' = [score |-> 0, rounds |-> 0, expr |-> NoLine]
    /\ resp' = Response("reset", 200, "-")
    /\ UNCHANGED <<argv, stdin, pc, expr, out, app_out, printed, code, gen>>

NextQuiz == Index \/ Expr \/ (\E a \in Answers : Check(a)) \/ Reset

SpecQuiz == InitQuiz /\ [][NextQuiz]_vars

\* ================================================================== claims
\* evaluate_expr of src/1.py has been called on expr and has ended in out
Called == expr # NoLine /\ out # NoOut

TreeOf(line) == ast_parse(line).tree
Parsed(line) == ast_parse(line).st = "ok"
NodesOf(line) == ast_walk(<<TreeOf(line)>>)

\* a token spelt with digits, the decimal point, the arithmetic operators and
\* parentheses only
PlainToken(t) ==
    \/ t.c = "NUMBER" /\ t.src = "dec"
    \/ t.c \in BinSyms \cup {"(", ")"}
HasDisallowedChar(line) == \E i \in 1..Len(line.toks) : ~PlainToken(line.toks[i])

\* C1: an input with an identifier, a call, an attribute access or any
\* character outside digits, operators, parentheses, whitespace and the
\* decimal point ends in an error, never in a value.
C1_DisallowedInputIsRejected ==
    Called /\ HasDisallowedChar(expr) => out.kind # "value"

\* a /, // or % whose right operand evaluates to zero
ZeroDivisor(node) ==
    /\ node.t = "BinOp"
    /\ node.op \in {"Div", "FloorDiv", "Mod"}
    /\ _eval(node.right).kind = "value"
    /\ IsZero(_eval(node.right).val)
HasZeroDivisor(line) ==
    \E i \in 1..Len(NodesOf(line)) : ZeroDivisor(NodesOf(line)[i])

\* C2: whenever /, // or % is applied to a right operand that is zero (int or
\* float), and for every tree that holds such a division at any depth, the call
\* ends in a ValueError: no value, and no other exception type.  (The first
\* half holds; a division nested beyond the recursion limit refutes the second.)
C2_DivisionByZeroIsValueError ==
    Called =>
        /\ out.dz => out.kind = "ValueError" /\ out.msg = "Error computing"
        /\ Parsed(expr) /\ HasZeroDivisor(expr) => out.kind = "ValueError"

\* C3: a call of evaluate_expr returns a number or raises ValueError, whatever
\* the input, so neither the prompt loop nor the single-expression mode lets an
\* exception escape.
C3_ValueOrValueErrorOnly ==
    /\ Called => out.kind \in {"value", "ValueError"}
    /\ pc # "crashed"

\* C4: a value returned is an int or a float, nothing else.
C4_ResultIsIntOrFloat ==
    Called /\ out.kind = "value" => out.val.k \in {"int", "float"}

\* only decimal integer literals, + - * // % **, signs and parentheses
IntOnly(line) ==
    /\ line.toks # <<>>
    /\ \A i \in 1..Len(line.toks) :
          \/ line.toks[i].c = "NUMBER" /\ line.toks[i].src = "dec"
                /\ line.toks[i].v.k = "int"
          \/ line.toks[i].c \in {"+", "-", "*", "//", "%", "**", "(", ")"}
\* a / or a float literal
TouchesFloat(line) ==
    \E i \in 1..Len(line.toks) :
        \/ line.toks[i].c = "/"
        \/ line.toks[i].c = "NUMBER" /\ line.toks[i].v.k = "float"
\* a ** whose right operand evaluates to a negative number
NegativeExponent(node) ==
    /\ node.t = "BinOp"
    /\ node.op = "Pow"
    /\ _eval(node.right).kind = "value"
    /\ _eval(node.right).val.n < 0
HasNegativeExponent(line) ==
    \E i \in 1..Len(NodesOf(line)) : NegativeExponent(NodesOf(line)[i])

Prec(sym) ==
    CASE sym \in {"+", "-"} -> 1
      [] sym \in {"*", "/", "//", "%"} -> 2
      [] sym = "**" -> 4
SymOp(sym) ==
    CASE sym = "+" -> "Add"
      [] sym = "-" -> "Sub"
      [] sym = "*" -> "Mult"
      [] sym = "/" -> "Div"
      [] sym = "//" -> "FloorDiv"
      [] sym = "%" -> "Mod"
      [] sym = "**" -> "Pow"
\* in a o b q c the left operator is applied first: it binds tighter, or as
\* tight and the operators associate to the left (all but **)
LeftFirst(o, q) == Prec(o) > Prec(q) \/ (Prec(o) = Prec(q) /\ o # "**")

\* the operator functions applied to results, an error of the left operand first
AppB(sym, x, y) ==
    IF x.st # "ok" THEN x
    ELSE IF y.st # "ok" THEN y
    ELSE BinOpFn(SymOp(sym), x.v, y.v)
AppU(sym, x) ==
    IF x.st # "ok" THEN x
    ELSE UnaryOpFn(IF sym = "-" THEN "USub" ELSE "UAdd", x.v)

IsLit(t) == t.c = "NUMBER" /\ t.src = "dec"
IsBin(t) == t.c \in BinSyms
IsSign(t) == t.c \in Signs

\* the value of the fully parenthesised expression, for the shapes a o b q c,
\* (a o b) q c, a o (b q c), u a o b, a o u b and (u a) o b; "none" otherwise
Grouped(t) ==
    CASE Len(t) = 5 /\ IsLit(t[1]) /\ IsBin(t[2]) /\ IsLit(t[3]) /\ IsBin(t[4])
            /\ IsLit(t[5]) ->
            IF LeftFirst(t[2].c, t[4].c)
            THEN AppB(t[4].c, AppB(t[2].c, Ok(t[1].v), Ok(t[3].v)), Ok(t[5].v))
            ELSE AppB(t[2].c, Ok(t[1].v), AppB(t[4].c, Ok(t[3].v), Ok(t[5].v)))
      [] Len(t) = 7 /\ t[1].c = "(" /\ IsLit(t[2]) /\ IsBin(t[3]) /\ IsLit(t[4])
            /\ t[5].c = ")" /\ IsBin(t[6]) /\ IsLit(t[7]) ->
            AppB(t[6].c, AppB(t[3].c, Ok(t[2].v), Ok(t[4].v)), Ok(t[7].v))
      [] Len(t) = 7 /\ IsLit(t[1]) /\ IsBin(t[2]) /\ t[3].c = "(" /\ IsLit(t[4])
            /\ IsBin(t[5]) /\ IsLit(t[6]) /\ t[7].c = ")" ->
            AppB(t[2].c, Ok(t[1].v), AppB(t[5].c, Ok(t[4].v), Ok(t[6].v)))
      [] Len(t) = 4 /\ IsSign(t[1]) /\ IsLit(t[2]) /\ IsBin(t[3]) /\ IsLit(t[4]) ->
            IF t[3].c = "**"
            THEN AppU(t[1].c, AppB(t[3].c, Ok(t[2].v), Ok(t[4].v)))
            ELSE AppB(t[3].c, AppU(t[1].c, Ok(t[2].v)), Ok(t[4].v))
      [] Len(t) = 4 /\ IsLit(t[1]) /\ IsBin(t[2]) /\ IsSign(t[3]) /\ IsLit(t[4]) ->
            AppB(t[2].c, Ok(t[1].v), AppU(t[3].c, Ok(t[4].v)))
      [] Len(t) = 6 /\ t[1].c = "(" /\ IsSign(t[2]) /\ IsLit(t[3]) /\ t[4].c = ")"
            /\ IsBin(t[5]) /\ IsLit(t[6]) ->
            AppB(t[5].c, AppU(t[2].c, Ok(t[3].v)), Ok(t[6].v))
      [] OTHER -> [st |-> "none", v |-> NoneV, exc |-> "-"]

\* C6: evaluate_expr returns the value of the expression grouped by the
\* precedence (+ -) < (* / // %) < unary sign < **, with + - * / // %
\* associating to the left and ** to the right, a sign in front of a power
\* applied to the power, and parentheses overriding all of it.
C6_GroupingByPrecedence ==
    Called =>
        LET g == Grouped(expr.toks)
        IN  /\ g.st = "ok" => out.kind = "value" /\ out.val = g.v
            /\ g.st = "exc" => out.kind = "ValueError" /\ out.msg = "Error computing"

\* C6's case: 2 ** 3 ** 2 is 2 ** (3 ** 2) = 512
C6_Witness ==
    /\ Called
    /\ expr.toks = <<Dec(2), Punct("**"), Dec(3), Punct("**"), Dec(2)>>
    /\ out.kind = "value"
    /\ out.val = IntV(512)

\* a node of the three kinds the evaluator is for (True and False are counted
\* with the numeric literals here: C1 and C4 are about them)
Whitelisted(node) ==
    \/ node.t = "Expression"
    \/ node.t = "Constant" /\ node.value.k \in {"int", "float", "bool"}
    \/ node.t = "UnaryOp" /\ node.op \in _UNARY_OPS
    \/ node.t = "BinOp" /\ node.op \in _BIN_OPS
HasOtherNode(line) ==
    \E i \in 1..Len(NodesOf(line)) : ~Whitelisted(NodesOf(line)[i])

\* C7: a tree with a node that is no numeric literal, sign or arithmetic
\* operation is rejected by the validation pass, before any operand is
\* evaluated and any operator applied.
C7_FailClosed ==
    Called /\ Parsed(expr) /\ HasOtherNode(expr) =>
        /\ out.kind = "ValueError"
        /\ out.evald = 0
        /\ out.applied = 0

\* C7's case: in 2 + None the operand 2 is evaluated before None is refused
C7_Case ==
    /\ Called
    /\ expr.toks = <<Dec(2), Punct("+"), KwNone>>
    /\ out.kind = "ValueError"
    /\ out.evald = 1

\* C8: the two evaluate_expr end the same way on every input: the same number,
\* or an error of the same type.
C8_SameOutcome ==
    pc = "compared" => out.kind = app_out.kind /\ out.val = app_out.val

\* C9: once /expr has stored an expression, evaluate_expr evaluates it without
\* an error, and no /check answers 500 'Server evaluation error'.
C9_StoredExprEvaluates ==
    /\ session.expr # NoLine => app_evaluate_expr(session.expr).kind = "value"
    /\ resp.error # "Server evaluation error"

\* C9's case: every one of the 30 attempts divided by a parenthesised zero,
\* "1 + 1" was stored, and a /check after it was answered
C9_Witness ==
    /\ session.expr = OnePlusOne
    /\ gen \in {<<g>> : g \in FewGood}
    /\ resp.req = "check"
    /\ resp.status = 200
    /\ resp.parsed

\* the same number, whatever its type
SameNumber(x, y) == x.k \notin {"complex", "none", "str"} /\ x.n * y.d = y.n * x.d

\* C10: 0 <= score <= rounds at all times; a /check of a parseable answer adds
\* one round, and one point only if the answer is the value of the expression;
\* a /check without an expression or with an unparseable answer changes
\* neither; /reset zeroes both and removes the expression.
C10_ScoreWithinRounds ==
    /\ [](0 <= Score /\ Score <= Rounds)
    /\ [][/\ resp'.req = "check" /\ resp'.parsed =>
                /\ Rounds' = Rounds + 1
                /\ Score' \in {Score, Score + 1}
                /\ Score' = Score + 1 =>
                      /\ Parseable(resp'.answer)
                      /\ SameNumber(app_evaluate_expr(session.expr).val, resp'.answer.v)
          /\ resp'.req = "check" /\ (resp'.status = 400 \/ ~resp'.parsed) =>
                Score' = Score /\ Rounds' = Rounds
          /\ resp'.req = "reset" =>
                session' = [score |-> 0, rounds |-> 0, expr |-> NoLine]]_vars

\* C10's case: two rounds played, one of them won
C10_Witness ==
    /\ resp.req = "check"
    /\ resp.parsed
    /\ session.score = 1
    /\ session.rounds = 2
====
